---- MODULE Spec2Model ----
(***************************************************************************)
(* Model of the German verb quiz backend: VerbService                      *)
(* (src/backend/services.py) and the FastAPI handlers built on it          *)
(* (src/backend/main.py, src/backend/models.py).                           *)
(*                                                                         *)
(* Strings that the code inspects character by character (the submitted    *)
(* forms and the reference forms, which meet in str.strip() and ==) are    *)
(* sequences of one-character strings.  Strings that the code only looks   *)
(* up or copies (infinitives, translations, examples, paths) are atoms.    *)
(***************************************************************************)
EXTENDS Integers, Sequences, FiniteSets, TLC

(***************************************************************************)
(* Bounds of the model.                                                    *)
(***************************************************************************)
\* longest submitted form
MaxLen == 3
\* most characters in the three submitted forms of one check_answer call
MaxTotal == 5
\* longest answer list handed to grade_session / Submit
MaxAnswers == 2
\* largest in-range count tried by get_random_verbs / Start
MaxCount == 2

\* Python's None, and the other things a cache or a source can be besides a table
Kind(k) == [kind |-> k, rows |-> <<>>]
None == Kind("None")
\* a loaded table
Table(t) == [kind |-> "table", rows |-> t]

(***************************************************************************)
(* Character strings.                                                      *)
(***************************************************************************)
Whitespace == {" "}
Alphabet == {" ", "a", "A"}

RECURSIVE StringsOfLen(_)
StringsOfLen(n) ==
    IF n = 0 THEN {<<>>}
    ELSE {Append(s, c) : s \in StringsOfLen(n - 1), c \in Alphabet}

RECURSIVE StringsUpTo(_)
StringsUpTo(n) ==
    IF n = 0 THEN StringsOfLen(0)
    ELSE StringsUpTo(n - 1) \cup StringsOfLen(n)

Strings == StringsUpTo(MaxLen)

\* str.lstrip(): drop leading whitespace
RECURSIVE lstrip(_)
lstrip(s) ==
    IF s # <<>> /\ Head(s) \in Whitespace THEN lstrip(Tail(s)) ELSE s

\* str.rstrip(): drop trailing whitespace
RECURSIVE rstrip(_)
rstrip(s) ==
    IF s # <<>> /\ s[Len(s)] \in Whitespace
    THEN rstrip(SubSeq(s, 1, Len(s) - 1))
    ELSE s

\* str.strip() with only one end handled
strip_left_only(s) == lstrip(s)

\* str.strip(): drop leading and trailing whitespace, keep the interior
strip(s) == rstrip(lstrip(s))

(***************************************************************************)
(* The static sources.  A source is Absent, Malformed (present, not JSON)  *)
(* or holds a table.                                                       *)
(***************************************************************************)
Absent == Kind("absent")
Malformed == Kind("malformed")

Forms(p, q, r) == [Praesens |-> p, Praeteritum |-> q, Perfekt |-> r]

\* form tables (verbs_forms.json)
VerbsA ==
    [i \in {"gehen", "machen"} |->
        IF i = "gehen" THEN Forms(<<"a">>, <<"A">>, <<"a", "a">>)
        ELSE Forms(<<"A">>, <<"a", "A">>, <<"a">>)]

VerbsB ==
    [i \in {"gehen", "machen", "sein"} |->
        IF i = "gehen" THEN Forms(<<"a">>, <<"a", " ", "a">>, <<"A">>)
        ELSE IF i = "machen" THEN Forms(<<"a", "a">>, <<"a">>, <<"A", "a">>)
        ELSE Forms(<<"A">>, <<"A", "A">>, <<"a">>)]

\* translation tables (translations/verbs_translation_ru.json)
TranslationsA ==
    [i \in {"gehen", "machen", "sein"} |->
        IF i = "gehen" THEN <<"idti", "khodit">>
        ELSE IF i = "machen" THEN <<"delat">>
        ELSE <<"byt">>]

\* example tables (verbs_examples.json)
ExamplesA ==
    [i \in {"gehen", "machen", "sein"} |->
        IF i = "gehen" THEN <<"Er geht.", "Er ging.">>
        ELSE IF i = "machen" THEN <<"Sie macht.", "Sie machte.", "Sie hat gemacht.">>
        ELSE <<"Es ist.", "Es war.">>]

\* tables that each lack a verb the other tables have
TranslationsB ==
    [i \in {"gehen", "sein"} |->
        IF i = "gehen" THEN <<"idti">> ELSE <<"byt", "yavlyatsya">>]

ExamplesB ==
    [i \in {"gehen", "machen"} |->
        IF i = "gehen" THEN <<"Wir gehen.", "Wir gingen.">>
        ELSE <<"Du machst.", "Du machtest.">>]

\* a form table one of whose rows lacks a form
VerbsC ==
    [i \in {"gehen", "machen"} |->
        IF i = "gehen" THEN Forms(<<"a">>, <<"A">>, <<"a", "a">>)
        ELSE [Praesens |-> <<"A">>, Praeteritum |-> <<"a", "A">>]]

VerbTables == {Table(VerbsA), Table(VerbsB)}
TranslationTables == {Table(TranslationsA)}
ExampleTables == {Table(ExamplesA)}

data_path == "data/verbs_forms.json"
translations_path == "data/translations/verbs_translation_ru.json"
examples_path == "data/verbs_examples.json"

(***************************************************************************)
(* State.                                                                  *)
(***************************************************************************)
VARIABLES
    file_verbs,         \* content of data_path
    file_translations,  \* content of translations_path
    file_examples,      \* content of examples_path
    self_verbs,         \* VerbService._verbs
    self_translations,  \* VerbService._translations
    self_examples,      \* VerbService._examples
    io,                 \* sources opened by the last operation
    last,               \* the last call: operation, arguments, outcome
    issued,             \* history: the sessions Start has handed out where
                        \* an observer records them; the program keeps none
    threads,            \* callers inside a load operation taken statement by
                        \* statement: where each stands and what it has parsed
    writes,             \* history: how often each cache attribute was assigned
                        \* by those callers
    failed              \* history: the load operations seen to fail where an
                        \* observer records them

files == <<file_verbs, file_translations, file_examples>>
caches == <<self_verbs, self_translations, self_examples>>
observed == <<issued, writes, failed>>
vars == <<file_verbs, file_translations, file_examples,
          self_verbs, self_translations, self_examples, io, last, issued,
          threads, writes, failed>>

(***************************************************************************)
(* Outcomes of a call: a returned value or a raised exception.             *)
(***************************************************************************)
NoExc == [type |-> "None", msg |-> <<>>]
Raise(t, m) == [type |-> t, msg |-> m]

\* one call as recorded in last
Call(op, args, exc, ret) == [op |-> op, args |-> args, exc |-> exc, ret |-> ret]

Returned == last.exc.type = "None"

\* no call is in progress and none is being observed
IdleCall == Call("idle", <<>>, NoExc, None)
Idle == last = IdleCall

\* json.JSONDecodeError derives from ValueError; FileNotFoundError does not
IsValueError(exc) == exc.type \in {"ValueError", "JSONDecodeError"}

(***************************************************************************)
(* VerbService.load_verbs / load_translations / load_examples.             *)
(* Each is the same read-through cache over its own source: the result     *)
(* carries the exception or the table, the new cache and whether the       *)
(* source was opened.                                                      *)
(***************************************************************************)
\* a loader that reads the source on every call
LoadAlways(cache, file, path, what) ==
    IF file = Absent
    THEN [exc |-> Raise("FileNotFoundError", <<what, path>>),
          ret |-> None, cache |-> cache, opened |-> FALSE]
    ELSE IF file = Malformed
    THEN [exc |-> Raise("JSONDecodeError", <<"Expecting value">>),
          ret |-> None, cache |-> cache, opened |-> TRUE]
    ELSE [exc |-> NoExc, ret |-> file, cache |-> file, opened |-> TRUE]

\* a load that, once any load has been seen to fail, fails without looking
LoadRememberingFailure(cache, file, path, what) ==
    IF cache # None
    THEN [exc |-> NoExc, ret |-> cache, cache |-> cache, opened |-> FALSE]
    ELSE IF failed # {}
    THEN [exc |-> Raise("FileNotFoundError", <<what, path>>),
          ret |-> None, cache |-> None, opened |-> FALSE]
    ELSE LoadAlways(cache, file, path, what)

Load(cache, file, path, what) ==
    IF cache # None
    THEN [exc |-> NoExc, ret |-> cache, cache |-> cache, opened |-> FALSE]
    ELSE IF file = Absent
    THEN [exc |-> Raise("FileNotFoundError", <<what, path>>),
          ret |-> None, cache |-> None, opened |-> FALSE]
    ELSE IF file = Malformed
    THEN [exc |-> Raise("JSONDecodeError", <<"Expecting value">>),
          ret |-> None, cache |-> None, opened |-> TRUE]
    ELSE [exc |-> NoExc, ret |-> file, cache |-> file, opened |-> TRUE]

\* load_verbs refusing to load while the translation source is missing
LoadVerbsNeedingTranslations(cache, file) ==
    IF file_translations = Absent
    THEN [exc |-> Raise("FileNotFoundError",
                        <<"Translations file not found:", translations_path>>),
          ret |-> None, cache |-> cache, opened |-> FALSE]
    ELSE Load(cache, file, data_path, "Verb data file not found:")

LoadVerbs(cache, file) ==
    Load(cache, file, data_path, "Verb data file not found:")

LoadTranslations(cache, file) ==
    Load(cache, file, translations_path, "Translations file not found:")

\* load_examples naming the form table's path when its own source is missing
LoadExamplesWrongPath(cache, file) ==
    Load(cache, file, data_path, "Examples file not found:")

LoadExamples(cache, file) ==
    Load(cache, file, examples_path, "Examples file not found:")

Opened(name, r) == IF r.opened THEN {name} ELSE {}

load_verbs ==
    LET r == LoadVerbs(self_verbs, file_verbs) IN
    /\ Idle
    /\ self_verbs' = r.cache
    /\ io' = Opened("verbs", r)
    /\ last' = Call("load_verbs", <<>>, r.exc, r.ret)
    /\ UNCHANGED <<files, threads, observed, self_translations, self_examples>>

load_translations ==
    LET r == LoadTranslations(self_translations, file_translations) IN
    /\ Idle
    /\ self_translations' = r.cache
    /\ io' = Opened("translations", r)
    /\ last' = Call("load_translations", <<>>, r.exc, r.ret)
    /\ UNCHANGED <<files, threads, observed, self_verbs, self_examples>>

load_examples ==
    LET r == LoadExamples(self_examples, file_examples) IN
    /\ Idle
    /\ self_examples' = r.cache
    /\ io' = Opened("examples", r)
    /\ last' = Call("load_examples", <<>>, r.exc, r.ret)
    /\ UNCHANGED <<files, threads, observed, self_verbs, self_translations>>

(***************************************************************************)
(* VerbService.get_verb_hints.                                             *)
(***************************************************************************)
Range(s) == {s[k] : k \in 1..Len(s)}

Infinitives == {"gehen", "machen", "sein", "laufen"}

\* the error for a verb without translations, worded as the one for examples
NotInTranslationsMisworded(infinitive) ==
    Raise("ValueError", <<"Verb", infinitive, "not found in examples">>)

\* ValueError(f"Verb '{infinitive}' not found in translations")
NotInTranslations(infinitive) ==
    Raise("ValueError", <<"Verb", infinitive, "not found in translations">>)

\* ValueError(f"Verb '{infinitive}' not found in examples")
NotInExamples(infinitive) ==
    Raise("ValueError", <<"Verb", infinitive, "not found in examples">>)

\* a choice among the examples of every verb
choice_of_any(examples, infinitive) ==
    UNION {Range(examples[i]) : i \in DOMAIN examples}

\* random.choice(examples[infinitive])
choice(examples, infinitive) == Range(examples[infinitive])

\* outcomes of get_verb_hints(infinitive): random.choice makes them a set
GetVerbHints(tcache, tfile, ecache, efile, infinitive) ==
    LET t == LoadTranslations(tcache, tfile) IN
    IF t.exc # NoExc
    THEN {[exc |-> t.exc, ret |-> None, translations |-> t.cache,
           examples |-> ecache, io |-> Opened("translations", t)]}
    ELSE
    LET e == LoadExamples(ecache, efile)
        opened == Opened("translations", t) \cup Opened("examples", e) IN
    IF e.exc # NoExc
    THEN {[exc |-> e.exc, ret |-> None, translations |-> t.cache,
           examples |-> e.cache, io |-> opened]}
    ELSE IF infinitive \notin DOMAIN t.ret.rows
    THEN {[exc |-> NotInTranslations(infinitive),
           ret |-> None, translations |-> t.cache, examples |-> e.cache,
           io |-> opened]}
    ELSE IF infinitive \notin DOMAIN e.ret.rows
    THEN {[exc |-> NotInExamples(infinitive),
           ret |-> None, translations |-> t.cache, examples |-> e.cache,
           io |-> opened]}
    ELSE IF e.ret.rows[infinitive] = <<>>
    THEN {[exc |-> Raise("IndexError", <<"Cannot choose from an empty sequence">>),
           ret |-> None, translations |-> t.cache, examples |-> e.cache,
           io |-> opened]}
    ELSE {[exc |-> NoExc,
           ret |-> [translations |-> t.ret.rows[infinitive], example |-> x],
           translations |-> t.cache, examples |-> e.cache, io |-> opened]
          : x \in choice(e.ret.rows, infinitive)}

get_verb_hints ==
    /\ Idle
    /\ \E infinitive \in Infinitives :
       \E r \in GetVerbHints(self_translations, file_translations,
                             self_examples, file_examples, infinitive) :
        /\ self_translations' = r.translations
        /\ self_examples' = r.examples
        /\ io' = r.io
        /\ last' = Call("get_verb_hints", <<infinitive>>, r.exc, r.ret)
        /\ UNCHANGED <<files, threads, observed, self_verbs>>

(***************************************************************************)
(* VerbService.get_random_verbs.                                           *)
(***************************************************************************)
\* random.sample(population, k): every ordered choice of k distinct members
RECURSIVE Samples(_, _)
Samples(population, k) ==
    IF k = 0 THEN {<<>>}
    ELSE UNION {{Append(s, v) : v \in population \ Range(s)}
                : s \in Samples(population, k - 1)}

\* sampling with replacement
RECURSIVE Choices(_, _)
Choices(population, k) ==
    IF k = 0 THEN {<<>>}
    ELSE {Append(s, v) : s \in Choices(population, k - 1), v \in population}

sample_with_replacement(population, k) == Choices(population, k)

\* random.sample(available_verbs, count)
sample(population, k) == Samples(population, k)

\* the message with the two counts the wrong way round
NotEnoughSwapped(count, available) ==
    Raise("ValueError",
          <<"Not enough verbs in database. Requested", available,
            "but only", count, "available">>)

\* ValueError(f"Not enough verbs in database. Requested {count}, but only ...")
NotEnough(count, available) ==
    Raise("ValueError",
          <<"Not enough verbs in database. Requested", count,
            "but only", available, "available">>)

\* outcomes of get_random_verbs(count)
GetRandomVerbs(cache, file, count) ==
    LET v == LoadVerbs(cache, file) IN
    IF v.exc # NoExc
    THEN {[exc |-> v.exc, ret |-> None, cache |-> v.cache, opened |-> v.opened]}
    ELSE
    LET available_verbs == DOMAIN v.ret.rows IN
    IF Cardinality(available_verbs) < count
    THEN {[exc |-> NotEnough(count, Cardinality(available_verbs)),
           ret |-> None, cache |-> v.cache, opened |-> v.opened]}
    ELSE IF count < 0
    THEN {[exc |-> Raise("ValueError",
                         <<"Sample larger than population or is negative">>),
           ret |-> None, cache |-> v.cache, opened |-> v.opened]}
    ELSE {[exc |-> NoExc, ret |-> s, cache |-> v.cache, opened |-> v.opened]
          : s \in sample(available_verbs, count)}

\* a selection that takes the chosen verbs out of the cached table
get_random_verbs_popping(counts) ==
    /\ Idle
    /\ \E count \in counts :
       \E r \in GetRandomVerbs(self_verbs, file_verbs, count) :
        /\ self_verbs' =
              IF r.exc # NoExc THEN r.cache
              ELSE Table([i \in DOMAIN r.cache.rows \ Range(r.ret) |-> r.cache.rows[i]])
        /\ io' = Opened("verbs", r)
        /\ last' = Call("get_random_verbs", <<count>>, r.exc, r.ret)
        /\ UNCHANGED <<files, threads, observed, self_translations, self_examples>>

get_random_verbs(counts) ==
    /\ Idle
    /\ \E count \in counts :
       \E r \in GetRandomVerbs(self_verbs, file_verbs, count) :
        /\ self_verbs' = r.cache
        /\ io' = Opened("verbs", r)
        /\ last' = Call("get_random_verbs", <<count>>, r.exc, r.ret)
        /\ UNCHANGED <<files, threads, observed, self_translations, self_examples>>

(***************************************************************************)
(* VerbService.check_answer.                                               *)
(***************************************************************************)
\* the keys of a row in the order check_answer reads them
FormKeys == <<"Praesens", "Praeteritum", "Perfekt">>

\* correct_forms[key] raises KeyError(key) for the first key the row lacks
MissingKeys(correct_forms) ==
    {k \in 1..Len(FormKeys) : FormKeys[k] \notin DOMAIN correct_forms}

FirstMissingKey(correct_forms) ==
    FormKeys[CHOOSE k \in MissingKeys(correct_forms) :
                \A j \in MissingKeys(correct_forms) : k <= j]

\* the error for a verb the form table lacks, the verb left unnamed
NotInDatabaseUnnamed(infinitive) ==
    Raise("ValueError", <<"Verb not found in database">>)

\* ValueError(f"Verb '{infinitive}' not found in database")
NotInDatabase(infinitive) ==
    Raise("ValueError", <<"Verb", infinitive, "not found in database">>)

CheckAnswer(cache, file, infinitive, user_praesens, user_praeteritum, user_perfekt) ==
    LET v == LoadVerbs(cache, file) IN
    IF v.exc # NoExc
    THEN [exc |-> v.exc, ret |-> None, cache |-> v.cache, opened |-> v.opened]
    ELSE IF infinitive \notin DOMAIN v.ret.rows
    THEN [exc |-> NotInDatabase(infinitive),
          ret |-> None, cache |-> v.cache, opened |-> v.opened]
    ELSE
    LET correct_forms == v.ret.rows[infinitive] IN
    IF MissingKeys(correct_forms) # {}
    THEN [exc |-> Raise("KeyError", <<FirstMissingKey(correct_forms)>>),
          ret |-> None, cache |-> v.cache, opened |-> v.opened]
    ELSE
    [exc |-> NoExc,
     ret |-> [praesens |-> strip(user_praesens) = correct_forms.Praesens,
              praeteritum |-> strip(user_praeteritum) = correct_forms.Praeteritum,
              perfekt |-> strip(user_perfekt) = correct_forms.Perfekt],
     cache |-> v.cache, opened |-> v.opened]

check_answer(triples) ==
    /\ Idle
    /\ \E infinitive \in Infinitives, t \in triples :
        LET r == CheckAnswer(self_verbs, file_verbs, infinitive, t[1], t[2], t[3]) IN
        /\ self_verbs' = r.cache
        /\ io' = Opened("verbs", r)
        /\ last' = Call("check_answer", <<infinitive, t[1], t[2], t[3]>>,
                        r.exc, r.ret)
        /\ UNCHANGED <<files, threads, observed, self_translations, self_examples>>

(***************************************************************************)
(* VerbService.grade_session.                                              *)
(***************************************************************************)
Answer(i, p, q, r) ==
    [infinitive |-> i, praesens |-> p, praeteritum |-> q, perfekt |-> r]

\* sum(correctness.values())
Count(b) == IF b THEN 1 ELSE 0
forms_correct(correctness) ==
    Count(correctness.praesens) + Count(correctness.praeteritum)
        + Count(correctness.perfekt)

\* any(correctness.values())
any_correct(correctness) ==
    correctness.praesens \/ correctness.praeteritum \/ correctness.perfekt

\* all(correctness.values())
all_correct(correctness) ==
    correctness.praesens /\ correctness.praeteritum /\ correctness.perfekt

\* n / d cut to an integer
Truncate(n, d) == n \div d

\* n / d rounded up to an integer
RoundUp(n, d) == (n + d - 1) \div d

\* n / d rounded to the nearest integer, a tie going to the even neighbour
RoundHalfEven(n, d) ==
    LET q == n \div d
        r == n % d
    IN  IF 2 * r < d THEN q
        ELSE IF 2 * r > d THEN q + 1
        ELSE IF q % 2 = 0 THEN q ELSE q + 1

\* round(total_correct / total_forms * 100, 1), in tenths of a percent; the
\* float quotient rounds as the exact one does for fewer than 80 answers
score_tenths(total_correct, total_forms) ==
    IF total_forms > 0 THEN RoundHalfEven(1000 * total_correct, total_forms) ELSE 0

\* results.append(...) putting the record first
prepend(results, record) == <<record>> \o results

\* results.append(...)
append(results, record) == Append(results, record)

\* a test of emptiness that never finds a list empty
never_empty(answers) == FALSE

\* a test of the length that no list meets
shorter_than_empty(answers) == Len(answers) < 0

\* not answers
no_answers(answers) == answers = <<>>

\* the record appended for one answer
\* a record that keeps the answers as they were compared, trimmed
ResultRecordTrimmed(verbs, answer, correctness) ==
    [infinitive |-> answer.infinitive,
     correct |-> correctness,
     user_answers |-> [praesens |-> strip(answer.praesens),
                       praeteritum |-> strip(answer.praeteritum),
                       perfekt |-> strip(answer.perfekt)],
     correct_answers |-> [praesens |-> verbs[answer.infinitive].Praesens,
                          praeteritum |-> verbs[answer.infinitive].Praeteritum,
                          perfekt |-> verbs[answer.infinitive].Perfekt],
     all_correct |-> all_correct(correctness)]

ResultRecord(verbs, answer, correctness) ==
    [infinitive |-> answer.infinitive,
     correct |-> correctness,
     user_answers |-> [praesens |-> answer.praesens,
                       praeteritum |-> answer.praeteritum,
                       perfekt |-> answer.perfekt],
     correct_answers |-> [praesens |-> verbs[answer.infinitive].Praesens,
                          praeteritum |-> verbs[answer.infinitive].Praeteritum,
                          perfekt |-> verbs[answer.infinitive].Perfekt],
     all_correct |-> all_correct(correctness)]

\* the loop that looks through all answers for unknown verbs before it
\* grades, and names the last of them
RECURSIVE GradeLoopNamingLast(_, _, _, _, _, _)
GradeLoopNamingLast(cache, file, answers, k, results, total_correct) ==
    LET unknown == {j \in 1..Len(answers) :
                       answers[j].infinitive \notin DOMAIN cache.rows}
    IN
    IF unknown # {}
    THEN [exc |-> Raise("ValueError",
                        <<"Verb",
                          answers[CHOOSE j \in unknown :
                                     \A i \in unknown : i <= j].infinitive,
                          "not found in database">>),
          results |-> results, total_correct |-> total_correct]
    ELSE IF k > Len(answers)
    THEN [exc |-> NoExc, results |-> results, total_correct |-> total_correct]
    ELSE
    LET answer == answers[k]
        c == CheckAnswer(cache, file, answer.infinitive, answer.praesens,
                         answer.praeteritum, answer.perfekt)
    IN  IF c.exc # NoExc
        THEN [exc |-> c.exc, results |-> results, total_correct |-> total_correct]
        ELSE GradeLoopNamingLast(cache, file, answers, k + 1,
                 Append(results, ResultRecord(cache.rows, answer, c.ret)),
                 total_correct + forms_correct(c.ret))

\* the loop that steps over an answer whose verb is unknown
RECURSIVE GradeLoopSkipping(_, _, _, _, _, _)
GradeLoopSkipping(cache, file, answers, k, results, total_correct) ==
    IF k > Len(answers)
    THEN [exc |-> NoExc, results |-> results, total_correct |-> total_correct]
    ELSE
    LET answer == answers[k]
        infinitive == answer.infinitive
    IN  IF infinitive \notin DOMAIN cache.rows
        THEN GradeLoopSkipping(cache, file, answers, k + 1, results, total_correct)
        ELSE
        LET c == CheckAnswer(cache, file, infinitive, answer.praesens,
                             answer.praeteritum, answer.perfekt)
        IN  GradeLoopSkipping(cache, file, answers, k + 1,
                      Append(results, ResultRecord(cache.rows, answer, c.ret)),
                      total_correct + forms_correct(c.ret))

\* the for loop of grade_session from answer k on; cache is the loaded table
RECURSIVE GradeLoop(_, _, _, _, _, _)
GradeLoop(cache, file, answers, k, results, total_correct) ==
    IF k > Len(answers)
    THEN [exc |-> NoExc, results |-> results, total_correct |-> total_correct]
    ELSE
    LET answer == answers[k]
        infinitive == answer.infinitive
    IN  IF infinitive \notin DOMAIN cache.rows
        THEN [exc |-> Raise("ValueError",
                            <<"Verb", infinitive, "not found in database">>),
              results |-> results, total_correct |-> total_correct]
        ELSE
        LET c == CheckAnswer(cache, file, infinitive, answer.praesens,
                             answer.praeteritum, answer.perfekt)
        IN  IF c.exc # NoExc
            THEN [exc |-> c.exc, results |-> results,
                  total_correct |-> total_correct]
            ELSE
            GradeLoop(cache, file, answers, k + 1,
                      append(results, ResultRecord(cache.rows, answer, c.ret)),
                      total_correct + forms_correct(c.ret))

GradeSession(cache, file, answers) ==
    IF no_answers(answers)
    THEN [exc |-> Raise("ValueError", <<"No answers provided">>),
          ret |-> None, cache |-> cache, opened |-> FALSE]
    ELSE
    LET v == LoadVerbs(cache, file) IN
    IF v.exc # NoExc
    THEN [exc |-> v.exc, ret |-> None, cache |-> v.cache, opened |-> v.opened]
    ELSE
    LET total_forms == Len(answers) * 3
        loop == GradeLoop(v.cache, file, answers, 1, <<>>, 0)
    IN  IF loop.exc # NoExc
        THEN [exc |-> loop.exc, ret |-> None, cache |-> v.cache,
              opened |-> v.opened]
        ELSE [exc |-> NoExc,
              ret |-> [total_verbs |-> Len(answers),
                       total_forms |-> total_forms,
                       correct_count |-> loop.total_correct,
                       score_percentage |->
                           score_tenths(loop.total_correct, total_forms),
                       results |-> loop.results],
              cache |-> v.cache, opened |-> v.opened]

grade_session(lists) ==
    /\ Idle
    /\ \E answers \in lists :
        LET r == GradeSession(self_verbs, file_verbs, answers) IN
        /\ self_verbs' = r.cache
        /\ io' = Opened("verbs", r)
        /\ last' = Call("grade_session", <<answers>>, r.exc, r.ret)
        /\ UNCHANGED <<files, threads, observed, self_translations, self_examples>>

(***************************************************************************)
(* The API handlers of main.py.  A handler's outcome is an HTTP response.  *)
(***************************************************************************)
\* Query(default=10, ge=1, le=20)
CountMin == 1
CountMax == 20

Response(status_code, detail, body) ==
    [status_code |-> status_code, detail |-> detail, body |-> body]

\* str(uuid.uuid4())
SessionIds == {"uuid-1", "uuid-2"}

\* the except clauses shared by start_session and submit_session
\* every exception answered as a server-side failure
SurfaceAll500(exc, prefix) == Response(500, <<prefix>> \o exc.msg, None)

Surface(exc, prefix) ==
    IF IsValueError(exc)
    THEN Response(400, exc.msg, None)
    ELSE Response(500, <<prefix>> \o exc.msg, None)

\* VerbInfo(infinitive=infinitive, index=idx): the other fields take defaults
VerbInfo(infinitive, idx) ==
    [infinitive |-> infinitive, index |-> idx, translations |-> <<>>,
     example |-> ""]

\* a lower limit that lets zero through
violates_ge_zero(count) == count < 0

\* Query(ge=1): the count is below the least allowed
violates_ge(count) == count < CountMin

\* Query(le=20): the count is above the greatest allowed
violates_le(count) == count > CountMax

\* outcomes of GET /api/session/start?count=
StartSession(cache, file, count) ==
    IF violates_ge(count)
    THEN {[response |-> Response(422,
                           <<"Input should be greater than or equal to", CountMin>>,
                           None),
           cache |-> cache, opened |-> FALSE]}
    ELSE IF violates_le(count)
    THEN {[response |-> Response(422,
                           <<"Input should be less than or equal to", CountMax>>,
                           None),
           cache |-> cache, opened |-> FALSE]}
    ELSE
    {IF r.exc # NoExc
     THEN [response |-> Surface(r.exc, "Failed to start session:"),
           cache |-> r.cache, opened |-> r.opened]
     ELSE [response |->
               Response(200, <<>>,
                   [session_id |-> session_id,
                    verbs |-> [k \in 1..Len(r.ret) |-> VerbInfo(r.ret[k], k - 1)],
                    total_verbs |-> Len(r.ret)]),
           cache |-> r.cache, opened |-> r.opened]
     : r \in GetRandomVerbs(cache, file, count), session_id \in SessionIds}

start_session(counts) ==
    /\ Idle
    /\ \E count \in counts :
       \E r \in StartSession(self_verbs, file_verbs, count) :
        /\ self_verbs' = r.cache
        /\ io' = Opened("verbs", r)
        /\ last' = Call("start_session", <<count>>, NoExc, r.response)
        /\ UNCHANGED <<files, threads, observed, self_translations, self_examples>>

\* POST /api/session/submit
\* the session id answered only if Start has handed it out
session_id_if_issued(request) ==
    IF request.session_id \in {s.session_id : s \in issued}
    THEN request.session_id ELSE "unknown"

\* session_id=request.session_id
session_id_received(request) == request.session_id

SubmitSession(cache, file, request) ==
    IF no_answers(request.answers)
    THEN [response |-> Surface(Raise("ValueError", <<"No answers provided">>),
                               "Failed to grade session:"),
          cache |-> cache, opened |-> FALSE]
    ELSE
    LET g == GradeSession(cache, file, request.answers) IN
    IF g.exc # NoExc
    THEN [response |-> Surface(g.exc, "Failed to grade session:"),
          cache |-> g.cache, opened |-> g.opened]
    ELSE [response |->
              Response(200, <<>>,
                  [session_id |-> session_id_received(request),
                   total_verbs |-> g.ret.total_verbs,
                   total_forms |-> g.ret.total_forms,
                   correct_count |-> g.ret.correct_count,
                   score_percentage |-> g.ret.score_percentage,
                   results |-> g.ret.results]),
          cache |-> g.cache, opened |-> g.opened]

\* start_session under an observer who records what it hands out
start_session_recorded(counts) ==
    /\ Idle
    /\ \E count \in counts :
       \E r \in StartSession(self_verbs, file_verbs, count) :
        /\ self_verbs' = r.cache
        /\ io' = Opened("verbs", r)
        /\ last' = Call("start_session", <<count>>, NoExc, r.response)
        /\ issued' = IF r.response.status_code = 200
                      THEN issued \cup
                           {[session_id |-> r.response.body.session_id,
                             infinitives |->
                                 [k \in 1..Len(r.response.body.verbs) |->
                                     r.response.body.verbs[k].infinitive]]}
                      ELSE issued
        /\ UNCHANGED <<files, self_translations, self_examples>>
        /\ UNCHANGED <<threads, writes, failed>>

submit_session(lists) ==
    /\ Idle
    /\ \E session_id \in SessionIds \cup {"made-up"}, answers \in lists :
        LET request == [session_id |-> session_id, answers |-> answers]
            r == SubmitSession(self_verbs, file_verbs, request)
        IN
        /\ self_verbs' = r.cache
        /\ io' = Opened("verbs", r)
        /\ last' = Call("submit_session", <<request>>, NoExc, r.response)
        /\ UNCHANGED <<files, threads, observed, self_translations, self_examples>>

\* GET /api/health
\* the number of verbs in the source as it is now
len_of_source(verbs) == Cardinality(DOMAIN file_verbs.rows)

\* len(verbs)
len(verbs) == Cardinality(DOMAIN verbs.rows)

HealthCheck(cache, file) ==
    LET v == LoadVerbs(cache, file) IN
    IF v.exc # NoExc
    THEN [response |-> Response(500, <<"Service unhealthy:">> \o v.exc.msg, None),
          cache |-> v.cache, opened |-> v.opened]
    ELSE [response |->
              Response(200, <<>>,
                  [status |-> "healthy",
                   verbs_loaded |-> len(v.ret)]),
          cache |-> v.cache, opened |-> v.opened]

health_check ==
    LET r == HealthCheck(self_verbs, file_verbs) IN
    /\ Idle
    /\ self_verbs' = r.cache
    /\ io' = Opened("verbs", r)
    /\ last' = Call("health_check", <<>>, NoExc, r.response)
    /\ UNCHANGED <<files, threads, observed, self_translations, self_examples>>

\* the caller has taken the outcome of the last call
Return ==
    /\ ~Idle
    /\ last' = IdleCall
    /\ io' = {}
    /\ UNCHANGED <<files, threads, observed, caches>>

(***************************************************************************)
(* The environment: a source is replaced, damaged or removed.              *)
(***************************************************************************)
ChangeVerbsFile ==
    /\ Idle
    /\ file_verbs' \in ({Absent, Malformed} \cup VerbTables) \ {file_verbs}
    /\ UNCHANGED <<io, last, threads, observed>>
    /\ UNCHANGED <<file_translations, file_examples, caches>>

ChangeTranslationsFile ==
    /\ Idle
    /\ file_translations' \in
           ({Absent, Malformed} \cup TranslationTables) \ {file_translations}
    /\ UNCHANGED <<io, last, threads, observed>>
    /\ UNCHANGED <<file_verbs, file_examples, caches>>

ChangeExamplesFile ==
    /\ Idle
    /\ file_examples' \in ({Absent, Malformed} \cup ExampleTables) \ {file_examples}
    /\ UNCHANGED <<io, last, threads, observed>>
    /\ UNCHANGED <<file_verbs, file_translations, caches>>

(***************************************************************************)
(* Inputs.                                                                 *)
(***************************************************************************)
Min(a, b) == IF a < b THEN a ELSE b

\* three submitted forms of at most n characters together
TriplesUpTo(n) ==
    UNION {UNION {{<<p, q, r>>
                   : r \in StringsUpTo(Min(MaxLen, n - Len(p) - Len(q)))}
                  : q \in StringsUpTo(Min(MaxLen, n - Len(p)))}
           : p \in StringsUpTo(Min(MaxLen, n))}

Triples == TriplesUpTo(MaxTotal)
FewTriples == TriplesUpTo(1)

\* lists of at most n members of pool
RECURSIVE ListsUpTo(_, _)
ListsUpTo(pool, n) ==
    IF n = 0 THEN {<<>>}
    ELSE ListsUpTo(pool, n - 1)
         \cup {Append(l, a) : l \in {m \in ListsUpTo(pool, n - 1) : Len(m) = n - 1},
                              a \in pool}

\* what a learner may type for a form: the form with a space before it, or
\* the form in the other case
SwapCase(c) == IF c = "a" THEN "A" ELSE IF c = "A" THEN "a" ELSE c
Typed(form) == {<<" ">> \o form, [k \in 1..Len(form) |-> SwapCase(form[k])]}

\* answers for the verbs of a form table, and one for a verb it lacks
AnswerPool(verbs) ==
    UNION {{Answer(i, p, q, r) : p \in Typed(verbs[i].Praesens),
                                 q \in Typed(verbs[i].Praeteritum),
                                 r \in Typed(verbs[i].Perfekt)}
           : i \in DOMAIN verbs}
    \cup {Answer("laufen", <<"a">>, <<"a">>, <<"a">>)}

\* a few answers, against no table in particular
FewAnswers ==
    {Answer("gehen", <<"a", " ">>, <<"A">>, <<"a", "a">>),
     Answer("machen", <<"a", "a">>, <<"A">>, <<"A", "a">>),
     Answer("laufen", <<"a">>, <<"a">>, <<"a">>)}

\* a form table with one verb more than Start ever hands out
ManyInfinitives == {"verb" \o ToString(k) : k \in 1..(CountMax + 1)}
VerbsMany == [i \in ManyInfinitives |-> Forms(<<"a">>, <<"A">>, <<"a", "a">>)]

\* every count the API lets through, and one beyond each end
AllCounts == (CountMin - 2)..(CountMax + 1)

\* the counts tried against a large table: the small ones, where every
\* selection can be listed
SmallCounts == (CountMin - 2)..MaxCount

\* the small counts and the first count the API refuses
SomeCounts == SmallCounts \cup {CountMax + 1}

\* the load operations with their source, cache and path
Loaders ==
    {[op |-> "load_verbs", path |-> data_path],
     [op |-> "load_translations", path |-> translations_path],
     [op |-> "load_examples", path |-> examples_path]}
SourceOf(op) ==
    IF op = "load_verbs" THEN file_verbs
    ELSE IF op = "load_translations" THEN file_translations
    ELSE file_examples
CacheOf(op) ==
    IF op = "load_verbs" THEN self_verbs
    ELSE IF op = "load_translations" THEN self_translations
    ELSE self_examples

(***************************************************************************)
(* A load operation taken statement by statement by callers that share the *)
(* service: the test of the cache attribute, the test for the source, the  *)
(* parse, the assignment and the return are separate steps of a caller.    *)
(***************************************************************************)
Callers == {"t1", "t2"}
LoadOps == {l.op : l \in Loaders}
Outside == [pc |-> "outside", op |-> "", parsed |-> None]
At(t, pc) == threads[t].pc = pc
Goto(t, pc) == threads' = [threads EXCEPT ![t].pc = pc]

\* the cache attribute of op becomes v
Assign(op, v) ==
    /\ self_verbs' = IF op = "load_verbs" THEN v ELSE self_verbs
    /\ self_translations' = IF op = "load_translations" THEN v ELSE self_translations
    /\ self_examples' = IF op = "load_examples" THEN v ELSE self_examples

\* a caller enters one of the load operations
enter(t) ==
    /\ At(t, "outside")
    /\ \E op \in LoadOps :
          threads' = [threads EXCEPT ![t] = [pc |-> "if_none", op |-> op, parsed |-> None]]
    /\ UNCHANGED <<files, caches, io, last, observed>>

\* if self._verbs is None:
if_none(t) ==
    /\ At(t, "if_none")
    /\ IF CacheOf(threads[t].op) = None
       THEN Goto(t, "exists")
       ELSE Goto(t, "return")
    /\ UNCHANGED <<files, caches, io, last, observed>>

\* if not self.data_path.exists(): raise FileNotFoundError(...)
exists(t) ==
    /\ At(t, "exists")
    /\ IF SourceOf(threads[t].op) = Absent
       THEN threads' = [threads EXCEPT ![t] = Outside]
       ELSE Goto(t, "json_load")
    /\ UNCHANGED <<files, caches, io, last, observed>>

\* open(...) and json.load(f): the right-hand side of the assignment
json_load(t) ==
    /\ At(t, "json_load")
    /\ IF SourceOf(threads[t].op).kind = "table"
       THEN threads' = [threads EXCEPT ![t].pc = "assign",
                                       ![t].parsed = SourceOf(threads[t].op)]
       ELSE threads' = [threads EXCEPT ![t] = Outside]
    /\ UNCHANGED <<files, caches, io, last, observed>>

\* self._verbs = <the parsed table>
assign(t) ==
    /\ At(t, "assign")
    /\ Assign(threads[t].op, threads[t].parsed)
    /\ writes' = [writes EXCEPT ![threads[t].op] = @ + 1]
    /\ Goto(t, "return")
    /\ UNCHANGED <<files, io, last, issued, failed>>

\* return self._verbs
return(t) ==
    /\ At(t, "return")
    /\ threads' = [threads EXCEPT ![t] = Outside]
    /\ UNCHANGED <<files, caches, io, last, observed>>

\* the name under which io lists the source of a load operation
SourceName(op) ==
    IF op = "load_verbs" THEN "verbs"
    ELSE IF op = "load_translations" THEN "translations" ELSE "examples"

\* a load operation under an observer who records its failures
load_recorded(op) ==
    LET r == IF op = "load_verbs" THEN LoadVerbs(self_verbs, file_verbs)
             ELSE IF op = "load_translations"
             THEN LoadTranslations(self_translations, file_translations)
             ELSE LoadExamples(self_examples, file_examples)
    IN
    /\ Idle
    /\ Assign(op, r.cache)
    /\ io' = Opened(SourceName(op), r)
    /\ last' = Call(op, <<>>, r.exc, r.ret)
    /\ failed' = IF r.exc # NoExc THEN failed \cup {op} ELSE failed
    /\ UNCHANGED <<files, threads, issued, writes>>

(***************************************************************************)
(* VerbService.__init__: nothing is cached.                                *)
(***************************************************************************)
Constructed ==
    /\ self_verbs = None
    /\ self_translations = None
    /\ self_examples = None
    /\ io = {}
    /\ last = IdleCall
    /\ issued = {}
    /\ threads = [t \in Callers |-> Outside]
    /\ writes = [op \in LoadOps |-> 0]
    /\ failed = {}

(***************************************************************************)
(* Spec: the service and its handlers over sources that come and go.       *)
(***************************************************************************)
Init ==
    /\ file_verbs \in {Absent, Malformed} \cup VerbTables
    /\ file_translations \in {Absent, Malformed} \cup TranslationTables
    /\ file_examples \in {Absent, Malformed} \cup ExampleTables
    /\ Constructed

Next ==
    \/ load_verbs
    \/ load_translations
    \/ load_examples
    \/ get_verb_hints
    \/ get_random_verbs(AllCounts)
    \/ check_answer(FewTriples)
    \/ grade_session(ListsUpTo(FewAnswers, 2))
    \/ start_session(AllCounts)
    \/ submit_session(ListsUpTo(FewAnswers, 2))
    \/ health_check
    \/ Return
    \/ ChangeVerbsFile
    \/ ChangeTranslationsFile
    \/ ChangeExamplesFile

Spec == Init /\ [][Next]_vars

(***************************************************************************)
(* SpecGrade: checking and grading over every bounded input, the sources   *)
(* present and unchanging.                                                 *)
(***************************************************************************)
InitGrade ==
    /\ file_verbs \in VerbTables
    /\ file_translations \in TranslationTables
    /\ file_examples \in ExampleTables
    /\ Constructed

NextGrade ==
    \/ check_answer(Triples)
    \/ grade_session(ListsUpTo(AnswerPool(file_verbs.rows), MaxAnswers))
    \/ submit_session(ListsUpTo(AnswerPool(file_verbs.rows), MaxAnswers))
    \/ Return

SpecGrade == InitGrade /\ [][NextGrade]_vars

(***************************************************************************)
(* SpecStart: selection over a small and a large form table, the sources   *)
(* present and unchanging.                                                 *)
(***************************************************************************)
InitStart ==
    /\ file_verbs \in {Table(VerbsA), Table(VerbsMany)}
    /\ file_translations \in TranslationTables
    /\ file_examples \in ExampleTables
    /\ Constructed

NextStart ==
    \/ load_verbs
    \/ get_random_verbs(SmallCounts)
    \/ start_session(SomeCounts)
    \/ Return

SpecStart == InitStart /\ [][NextStart]_vars

(***************************************************************************)
(* SpecHints: hints over translation and example tables that need not hold *)
(* the same verbs, the sources present and unchanging.                     *)
(***************************************************************************)
InitHints ==
    /\ file_verbs = Table(VerbsB)
    /\ file_translations \in {Table(TranslationsA), Table(TranslationsB)}
    /\ file_examples \in {Table(ExamplesA), Table(ExamplesB)}
    /\ Constructed

NextHints ==
    \/ load_translations
    \/ load_examples
    \/ get_verb_hints
    \/ Return

SpecHints == InitHints /\ [][NextHints]_vars

(***************************************************************************)
(* SpecSession: sessions started and submitted, what Start hands out being *)
(* recorded, the sources present and unchanging.                           *)
(***************************************************************************)
InitSession ==
    /\ file_verbs \in {Table(VerbsA), Table(VerbsC)}
    /\ file_translations \in TranslationTables
    /\ file_examples \in ExampleTables
    /\ Constructed

NextSession ==
    \/ start_session_recorded(SmallCounts)
    \/ submit_session(ListsUpTo(FewAnswers, 2))
    \/ Return

SpecSession == InitSession /\ [][NextSession]_vars

(***************************************************************************)
(* SpecLoad: two callers inside the load operations at once, the sources   *)
(* unchanging.                                                             *)
(***************************************************************************)
InitLoad ==
    /\ file_verbs \in {Absent, Malformed} \cup VerbTables
    /\ file_translations \in TranslationTables
    /\ file_examples \in ExampleTables
    /\ Constructed

NextLoad ==
    \/ \E t \in Callers : enter(t)
    \/ \E t \in Callers : if_none(t)
    \/ \E t \in Callers : exists(t)
    \/ \E t \in Callers : json_load(t)
    \/ \E t \in Callers : assign(t)
    \/ \E t \in Callers : return(t)

SpecLoad == InitLoad /\ [][NextLoad]_vars

(***************************************************************************)
(* SpecRetry: loads, their failures recorded, over sources that come and   *)
(* go.                                                                     *)
(***************************************************************************)
InitRetry ==
    /\ file_verbs \in {Absent, Malformed} \cup VerbTables
    /\ file_translations \in {Absent, Malformed} \cup TranslationTables
    /\ file_examples \in {Absent, Malformed} \cup ExampleTables
    /\ Constructed

NextRetry ==
    \/ \E op \in LoadOps : load_recorded(op)
    \/ Return
    \/ ChangeVerbsFile
    \/ ChangeTranslationsFile
    \/ ChangeExamplesFile

SpecRetry == InitRetry /\ [][NextRetry]_vars

(***************************************************************************)
(* SpecOrder: gradings of lists with several verbs the form table lacks    *)
(* and a verb whose row lacks a form, the sources present and unchanging.  *)
(***************************************************************************)
OrderAnswers ==
    FewAnswers \cup {Answer("sein", <<"A">>, <<"a">>, <<"a">>)}

InitOrder ==
    /\ file_verbs = Table(VerbsC)
    /\ file_translations \in TranslationTables
    /\ file_examples \in ExampleTables
    /\ Constructed

NextOrder ==
    \/ grade_session(ListsUpTo(OrderAnswers, MaxAnswers + 1))
    \/ submit_session(ListsUpTo(OrderAnswers, MaxAnswers + 1))
    \/ Return

SpecOrder == InitOrder /\ [][NextOrder]_vars

(***************************************************************************)
(* SpecScore: the score computation of grade_session applied to the counts *)
(* a grading can arrive at, up to the number of answers from which the     *)
(* rounding to one decimal hides a single form.                            *)
(***************************************************************************)
\* with n answers, all forms but one right still round to 100.0
Hides(n) == score_tenths(3 * n - 1, 3 * n) = 1000

\* the least number of answers for which that is so
HidingLength ==
    CHOOSE n \in 1..1000 : Hides(n) /\ \A m \in 1..(n - 1) : ~Hides(m)

\* the counts of a grading of n answers: total_correct and total_forms, with
\* no form, one form, all forms but one and all forms right
CountsOf(n) ==
    {[total_correct |-> c, total_forms |-> 3 * n] : c \in {0, 1, 3 * n - 1, 3 * n}}

ScoreInputs == UNION {CountsOf(n) : n \in 1..(HidingLength + 1)}

\* score_percentage = (total_correct / total_forms * 100) if total_forms > 0
\* else 0, and round(score_percentage, 1)
score_percentage(inputs) ==
    /\ Idle
    /\ \E x \in inputs :
          last' = Call("score_percentage", <<x.total_correct, x.total_forms>>,
                       NoExc, score_tenths(x.total_correct, x.total_forms))
    /\ io' = {}
    /\ UNCHANGED <<files, caches, threads, observed>>

InitScore ==
    /\ file_verbs = Table(VerbsA)
    /\ file_translations \in TranslationTables
    /\ file_examples \in ExampleTables
    /\ Constructed

NextScore ==
    \/ score_percentage(ScoreInputs)
    \/ Return

SpecScore == InitScore /\ [][NextScore]_vars

(***************************************************************************)
(* Properties.                                                             *)
(***************************************************************************)
Op(name) == last.op = name
Loaded == self_verbs.kind = "table"
Population == Cardinality(DOMAIN self_verbs.rows)

\* a selection: count distinct keys of the form table
IsSelection(infinitives, count) ==
    /\ Len(infinitives) = count
    /\ \A k \in 1..Len(infinitives) : infinitives[k] \in DOMAIN self_verbs.rows
    /\ \A j, k \in 1..Len(infinitives) : j # k => infinitives[j] # infinitives[k]

\* a Start response carrying count entries, indexed in order
IsSession(response, count) ==
    /\ response.status_code = 200
    /\ response.body.total_verbs = count
    /\ Len(response.body.verbs) = count
    /\ \A k \in 1..Len(response.body.verbs) : response.body.verbs[k].index = k - 1
    /\ IsSelection([k \in 1..Len(response.body.verbs) |->
                       response.body.verbs[k].infinitive], count)

\* C1 as stated: for every count from 1 to the number of verbs in the form
\* table, Start returns count entries, total_verbs = count, indices 0..count-1
\* in order, infinitives pairwise distinct keys of the form table.
C1_StartAnyCountUpToPopulation ==
    (Op("start_session") /\ Loaded
        /\ 1 <= last.args[1] /\ last.args[1] <= Population)
    => IsSession(last.ret, last.args[1])

\* C1 amended: the same for every count from 1 to the smaller of 20 and the
\* number of verbs; get_random_verbs alone returns count distinct keys for
\* every count from 1 to the number of verbs; Start refuses a count above 20
\* with a 422 and no session.
C1_StartUpToLimit ==
    /\ (Op("start_session") /\ Loaded
           /\ 1 <= last.args[1] /\ last.args[1] <= Population
           /\ last.args[1] <= CountMax)
       => IsSession(last.ret, last.args[1])
    /\ (Op("get_random_verbs") /\ Loaded
           /\ 1 <= last.args[1] /\ last.args[1] <= Population)
       => (Returned /\ IsSelection(last.ret, last.args[1]))
    /\ (Op("start_session") /\ last.args[1] > CountMax)
       => (last.ret.status_code = 422 /\ last.ret.body = None)

\* Start has answered a count of two or more with a session
C1_Witness ==
    /\ Op("start_session")
    /\ last.args[1] >= 2
    /\ last.ret.status_code = 200
    /\ Len(last.ret.body.verbs) = last.args[1]

\* C2: every entry returned by Start carries the hints of its infinitive:
\* the translation table's list for it (non-empty) and a non-empty example
\* from the example table's list for it.
C2_StartAttachesHints ==
    (Op("start_session") /\ last.ret.status_code = 200
        /\ file_translations.kind = "table" /\ file_examples.kind = "table")
    => \A k \in 1..Len(last.ret.body.verbs) :
         LET entry == last.ret.body.verbs[k] IN
         /\ entry.infinitive \in DOMAIN file_translations.rows
         /\ entry.translations = file_translations.rows[entry.infinitive]
         /\ entry.translations # <<>>
         /\ entry.infinitive \in DOMAIN file_examples.rows
         /\ entry.example # ""
         /\ entry.example \in Range(file_examples.rows[entry.infinitive])

\* the message states the requested and the available count
StatesCounts(msg, count, available) ==
    /\ Len(msg) = 5
    /\ msg[2] = count
    /\ msg[4] = available

\* C3 as stated: for every count above the number of verbs, get_random_verbs
\* and Start fail with a validation error whose message states the requested
\* and the available count, and return no session.
C3_TooManyNamesBothCounts ==
    /\ (Op("get_random_verbs") /\ Loaded /\ last.args[1] > Population)
       => /\ last.exc.type = "ValueError"
          /\ StatesCounts(last.exc.msg, last.args[1], Population)
          /\ last.ret = None
    /\ (Op("start_session") /\ Loaded /\ last.args[1] > Population)
       => /\ last.ret.status_code \in {400, 422}
          /\ StatesCounts(last.ret.detail, last.args[1], Population)
          /\ last.ret.body = None

\* C3 amended: get_random_verbs does so for every such count, Start for every
\* such count up to 20; above 20 Start refuses the request with a 422 that
\* names the limit, and returns no session either.
C3_TooManyWithinLimit ==
    /\ (Op("get_random_verbs") /\ Loaded /\ last.args[1] > Population)
       => /\ last.exc.type = "ValueError"
          /\ StatesCounts(last.exc.msg, last.args[1], Population)
          /\ last.ret = None
    /\ (Op("start_session") /\ Loaded /\ last.args[1] > Population
           /\ last.args[1] <= CountMax /\ last.args[1] >= CountMin)
       => /\ last.ret.status_code = 400
          /\ StatesCounts(last.ret.detail, last.args[1], Population)
          /\ last.ret.body = None
    /\ (Op("start_session") /\ Loaded /\ last.args[1] > CountMax)
       => /\ last.ret.status_code = 422
          /\ last.ret.body = None

\* Start was asked for more verbs than the loaded table has, within the limit
C3_Witness ==
    /\ Op("start_session")
    /\ Loaded
    /\ last.args[1] > Population
    /\ last.args[1] <= CountMax
    /\ last.ret.status_code = 400

\* t is s without its leading and trailing whitespace: s is whitespace, then
\* t, then whitespace, and t neither starts nor ends with whitespace
IsTrimOf(t, s) ==
    \E i \in 1..(Len(s) + 1), j \in 0..Len(s) :
        /\ i <= j + 1
        /\ t = SubSeq(s, i, j)
        /\ \A k \in 1..(i - 1) : s[k] \in Whitespace
        /\ \A k \in (j + 1)..Len(s) : s[k] \in Whitespace
        /\ (i <= j => (s[i] \notin Whitespace /\ s[j] \notin Whitespace))

\* C4: for an infinitive in the form table, check_answer marks a slot true
\* exactly when the submitted string without its leading and trailing
\* whitespace equals the slot's reference form, character for character.
C4_CheckAnswerExactAfterTrim ==
    (Op("check_answer") /\ Loaded /\ last.args[1] \in DOMAIN self_verbs.rows)
    => LET reference == self_verbs.rows[last.args[1]] IN
       /\ Returned
       /\ last.ret.praesens = IsTrimOf(reference.Praesens, last.args[2])
       /\ last.ret.praeteritum = IsTrimOf(reference.Praeteritum, last.args[3])
       /\ last.ret.perfekt = IsTrimOf(reference.Perfekt, last.args[4])

\* ' a ' was accepted for 'a' and 'a' refused for 'A'
C4_Witness ==
    /\ Op("check_answer")
    /\ Returned
    /\ last.args[2] = <<" ", "a", " ">>
    /\ last.args[3] = <<"a">>
    /\ last.ret.praesens
    /\ ~last.ret.praeteritum
    /\ self_verbs.rows[last.args[1]].Praeteritum = <<"A">>

\* the answers and the grading of the last grade_session or Submit
Graded ==
    \/ Op("grade_session") /\ Returned
    \/ Op("submit_session") /\ last.ret.status_code = 200
GradedAnswers ==
    IF Op("grade_session") THEN last.args[1] ELSE last.args[1].answers
Grading == IF Op("grade_session") THEN last.ret ELSE last.ret.body

\* score, in tenths of a percent, is a nearest tenth to 100 * correct / forms
IsNearestTenth(score, correct, forms) ==
    /\ 2 * (score * forms - 1000 * correct) <= forms
    /\ 2 * (1000 * correct - score * forms) <= forms

\* C5: in every grading, total_verbs = len(answers), total_forms = 3 *
\* len(answers), and score_percentage is 100 * correct_count / total_forms
\* rounded to one decimal (2 of 3 gives 66.7, 3 of 6 gives 50.0, all 100.0).
C5_TotalsAndScore ==
    Graded =>
        /\ Grading.total_verbs = Len(GradedAnswers)
        /\ Grading.total_forms = 3 * Len(GradedAnswers)
        /\ IsNearestTenth(Grading.score_percentage, Grading.correct_count,
                          Grading.total_forms)
        /\ (Grading.correct_count = 2 /\ Grading.total_forms = 3)
           => Grading.score_percentage = 667
        /\ (Grading.correct_count = 3 /\ Grading.total_forms = 6)
           => Grading.score_percentage = 500
        /\ Grading.correct_count = Grading.total_forms
           => Grading.score_percentage = 1000

\* one verb was graded with two of its three forms right
C5_Witness ==
    /\ Graded
    /\ Grading.total_forms = 3
    /\ Grading.correct_count = 2
    /\ Grading.score_percentage = 667

\* the infinitives of the answers that the loaded form table lacks
Unknown(answers) ==
    {answers[k].infinitive : k \in 1..Len(answers)} \ DOMAIN self_verbs.rows

\* C6: if any answer, at any position, has an infinitive absent from the form
\* table, grade_session and Submit fail with an error naming that infinitive
\* and return nothing: no records, no aggregates.
C6_UnknownVerbAbortsGrading ==
    /\ (Op("grade_session") /\ Loaded /\ Unknown(last.args[1]) # {})
       => /\ last.exc.type = "ValueError"
          /\ \E i \in Unknown(last.args[1]) :
                last.exc.msg = <<"Verb", i, "not found in database">>
          /\ last.ret = None
    /\ (Op("submit_session") /\ Loaded /\ Unknown(last.args[1].answers) # {})
       => /\ last.ret.status_code = 400
          /\ \E i \in Unknown(last.args[1].answers) :
                last.ret.detail = <<"Verb", i, "not found in database">>
          /\ last.ret.body = None

\* a known verb was followed by an unknown one and the grading failed
C6_Witness ==
    /\ Op("grade_session")
    /\ Len(last.args[1]) = 2
    /\ last.args[1][1].infinitive \in DOMAIN self_verbs.rows
    /\ last.args[1][2].infinitive \notin DOMAIN self_verbs.rows
    /\ last.exc.type = "ValueError"

\* C7: grade_session and Submit on an empty answer list fail with the
\* validation error 'No answers provided' and return no grading.
C7_EmptyListRejected ==
    /\ (Op("grade_session") /\ last.args[1] = <<>>)
       => /\ last.exc = Raise("ValueError", <<"No answers provided">>)
          /\ last.ret = None
    /\ (Op("submit_session") /\ last.args[1].answers = <<>>)
       => /\ last.ret.status_code = 400
          /\ last.ret.detail = <<"No answers provided">>
          /\ last.ret.body = None

\* an empty list was submitted and refused
C7_Witness ==
    /\ Op("submit_session")
    /\ last.args[1].answers = <<>>
    /\ last.ret.status_code = 400

\* C8: for a non-empty list of known infinitives, repeats included, there is
\* one result record per answer, in input order: record i has the infinitive
\* of answer i and that infinitive's three reference forms.
C8_OneRecordPerAnswerInOrder ==
    Graded =>
        /\ Len(Grading.results) = Len(GradedAnswers)
        /\ \A k \in 1..Len(Grading.results) :
             LET record == Grading.results[k]
                 reference == self_verbs.rows[GradedAnswers[k].infinitive]
             IN
             /\ record.infinitive = GradedAnswers[k].infinitive
             /\ record.correct_answers.praesens = reference.Praesens
             /\ record.correct_answers.praeteritum = reference.Praeteritum
             /\ record.correct_answers.perfekt = reference.Perfekt

\* two answers for two different verbs were graded
C8_Witness ==
    /\ Graded
    /\ Len(GradedAnswers) = 2
    /\ GradedAnswers[1].infinitive # GradedAnswers[2].infinitive
    /\ Len(Grading.results) = 2

\* the true per-form booleans of the first k records
RECURSIVE TrueForms(_, _)
TrueForms(results, k) ==
    IF k = 0 THEN 0
    ELSE TrueForms(results, k - 1)
         + Cardinality({f \in {"praesens", "praeteritum", "perfekt"} :
                           results[k].correct[f]})

\* C9: in every grading a record's all_correct is true exactly when its three
\* per-form booleans are, and correct_count is the number of true per-form
\* booleans over all records.
C9_FlagsAndCount ==
    Graded =>
        /\ \A k \in 1..Len(Grading.results) :
             Grading.results[k].all_correct
                 = (\A f \in {"praesens", "praeteritum", "perfekt"} :
                       Grading.results[k].correct[f])
        /\ Grading.correct_count
               = TrueForms(Grading.results, Len(Grading.results))

\* a record with present and perfect right, past wrong, not all_correct
C9_Witness ==
    /\ Graded
    /\ \E k \in 1..Len(Grading.results) :
          /\ Grading.results[k].correct.praesens
          /\ ~Grading.results[k].correct.praeteritum
          /\ Grading.results[k].correct.perfekt
          /\ ~Grading.results[k].all_correct

\* C10: once a load has succeeded, every later call of it returns the same
\* cached table without opening the source, whatever has become of the
\* source; nothing empties or replaces the cache.
C10_CacheKept ==
    [][/\ self_verbs # None
          => /\ self_verbs' = self_verbs
             /\ Op("load_verbs")'
                => (Returned' /\ last'.ret = self_verbs /\ "verbs" \notin io')
       /\ self_translations # None
          => /\ self_translations' = self_translations
             /\ Op("load_translations")'
                => (Returned' /\ last'.ret = self_translations
                    /\ "translations" \notin io')
       /\ self_examples # None
          => /\ self_examples' = self_examples
             /\ Op("load_examples")'
                => (Returned' /\ last'.ret = self_examples
                    /\ "examples" \notin io')]_vars

\* load_verbs returned the cached table after its source had gone
C10_Witness ==
    /\ Op("load_verbs")
    /\ Returned
    /\ last.ret = self_verbs
    /\ self_verbs # None
    /\ file_verbs = Absent
    /\ io = {}

\* C11: on a cold cache a load whose source is absent fails with a not-found
\* error naming the missing path, and one whose source is malformed fails
\* with a parse error; in both cases no table is returned.
C11_ColdLoadFails ==
    [][\A l \in Loaders :
          (CacheOf(l.op) = None /\ Op(l.op)') =>
              /\ SourceOf(l.op) = Absent
                 => /\ last'.exc.type = "FileNotFoundError"
                    /\ last'.exc.msg[Len(last'.exc.msg)] = l.path
                    /\ last'.ret = None
              /\ SourceOf(l.op) = Malformed
                 => /\ last'.exc.type = "JSONDecodeError"
                    /\ last'.ret = None]_vars

\* load_examples failed for want of its source and named the examples path
C11_Witness ==
    /\ Op("load_examples")
    /\ file_examples = Absent
    /\ last.exc.type = "FileNotFoundError"
    /\ last.exc.msg[2] = examples_path
    /\ last.ret = None

HintsLoaded == self_translations.kind = "table" /\ self_examples.kind = "table"

\* C12: get_verb_hints fails with 'not found in translations' when the
\* infinitive is absent from the translation table, and with 'not found in
\* examples' when it is there but absent from the example table; the two
\* errors differ and each names the infinitive.
C12_HintsNotFound ==
    (Op("get_verb_hints") /\ HintsLoaded) =>
        LET infinitive == last.args[1] IN
        /\ infinitive \notin DOMAIN self_translations.rows
           => /\ last.exc.type = "ValueError"
              /\ last.exc.msg = <<"Verb", infinitive, "not found in translations">>
              /\ last.ret = None
        /\ (infinitive \in DOMAIN self_translations.rows
               /\ infinitive \notin DOMAIN self_examples.rows)
           => /\ last.exc.type = "ValueError"
              /\ last.exc.msg = <<"Verb", infinitive, "not found in examples">>
              /\ last.ret = None

\* a verb with examples and without translations got the translations error
C12_Witness ==
    /\ Op("get_verb_hints")
    /\ HintsLoaded
    /\ last.args[1] \notin DOMAIN self_translations.rows
    /\ last.args[1] \in DOMAIN self_examples.rows
    /\ last.exc.msg = <<"Verb", last.args[1], "not found in translations">>

\* C13: for an infinitive in both tables get_verb_hints returns its whole
\* translation list, in table order, and one example from its own example
\* list, never an example of another verb.
C13_HintsOfOwnVerb ==
    (Op("get_verb_hints") /\ HintsLoaded
        /\ last.args[1] \in DOMAIN self_translations.rows
        /\ last.args[1] \in DOMAIN self_examples.rows)
    => /\ Returned
       /\ last.ret.translations = self_translations.rows[last.args[1]]
       /\ \E k \in 1..Len(self_examples.rows[last.args[1]]) :
             last.ret.example = self_examples.rows[last.args[1]][k]
       /\ \A i \in DOMAIN self_examples.rows \ {last.args[1]} :
             \A k \in 1..Len(self_examples.rows[i]) :
                last.ret.example # self_examples.rows[i][k]

\* the hints of a verb with two translations, its second example chosen
C13_Witness ==
    /\ Op("get_verb_hints")
    /\ Returned
    /\ Len(last.ret.translations) = 2
    /\ last.ret.example = self_examples.rows[last.args[1]][2]

IssuedIds == {s.session_id : s \in issued}
IssuedSelections == {s.infinitives : s \in issued}
InfinitivesOf(answers) == [k \in 1..Len(answers) |-> answers[k].infinitive]

\* C14: Submit answers with the session id it received and with the grading
\* of the submitted answers alone, whether or not Start ever issued that id
\* or selected those infinitives; Start leaves nothing behind but the cached
\* form table.
C14_SubmitIgnoresSessions ==
    [][/\ Op("start_session")'
          => /\ UNCHANGED <<files, self_translations, self_examples>>
             /\ self_verbs' \in {self_verbs, file_verbs}
       /\ Op("submit_session")'
          => LET request == last'.args[1]
                 g == GradeSession(self_verbs, file_verbs, request.answers)
             IN  IF g.exc = NoExc
                 THEN /\ last'.ret.status_code = 200
                      /\ last'.ret.body =
                            [session_id |-> request.session_id,
                             total_verbs |-> g.ret.total_verbs,
                             total_forms |-> g.ret.total_forms,
                             correct_count |-> g.ret.correct_count,
                             score_percentage |-> g.ret.score_percentage,
                             results |-> g.ret.results]
                 ELSE /\ last'.ret.status_code # 200
                      /\ last'.ret.body = None]_vars

\* after some Start, a Submit with an id never issued and infinitives never
\* selected together was graded and answered with that id
C14_Witness ==
    /\ Op("submit_session")
    /\ issued # {}
    /\ last.args[1].session_id \notin IssuedIds
    /\ InfinitivesOf(last.args[1].answers) \notin IssuedSelections
    /\ last.ret.status_code = 200
    /\ last.ret.body.session_id = last.args[1].session_id

\* C15: Start answers every count outside CountMin..CountMax with a
\* request-validation failure (422) that carries no session, the service not
\* having been called: nothing is cached and no source opened; every count
\* inside the range reaches get_random_verbs, whose outcome Start answers.
C15_StartChecksCountFirst ==
    [][Op("start_session")' =>
         LET count == last'.args[1] IN
         IF count \notin CountMin..CountMax
         THEN /\ last'.ret.status_code = 422
              /\ last'.ret.body = None
              /\ self_verbs' = self_verbs
              /\ io' = {}
         ELSE /\ last'.ret.status_code # 422
              /\ \E r \in GetRandomVerbs(self_verbs, file_verbs, count) :
                    /\ self_verbs' = r.cache
                    /\ io' = Opened("verbs", r)
                    /\ r.exc = NoExc
                       => /\ last'.ret.status_code = 200
                          /\ last'.ret.body.total_verbs = count
                          /\ [k \in 1..count |->
                                 last'.ret.body.verbs[k].infinitive] = r.ret
                    /\ r.exc # NoExc => last'.ret.status_code \in {400, 500}]_vars

\* Start refused the count zero while the form table was there to be loaded
\* and was not loaded
C15_Witness ==
    /\ Op("start_session")
    /\ last.args[1] = CountMin - 1
    /\ last.ret.status_code = 422
    /\ file_verbs.kind = "table"
    /\ self_verbs = None
    /\ io = {}

\* C16: the validation errors of Start and Submit reach the caller as HTTP
\* 400 with the service's message and never as a server-side failure: a
\* count within the API's limits and above the number of verbs, an empty
\* answer list, and a submission with an infinitive the form table lacks.
C16_ValidationErrorsAre400 ==
    /\ (Op("start_session") /\ Loaded
          /\ last.args[1] \in CountMin..CountMax
          /\ last.args[1] > Population)
       => /\ last.ret.status_code = 400
          /\ last.ret.detail =
                <<"Not enough verbs in database. Requested", last.args[1],
                  "but only", Population, "available">>
    /\ (Op("submit_session") /\ last.args[1].answers = <<>>)
       => /\ last.ret.status_code = 400
          /\ last.ret.detail = <<"No answers provided">>
    /\ (Op("submit_session") /\ Loaded /\ Unknown(last.args[1].answers) # {})
       => /\ last.ret.status_code = 400
          /\ last.ret.detail[1] = "Verb"
          /\ last.ret.detail[2] \in Unknown(last.args[1].answers)
          /\ last.ret.detail[3] = "not found in database"

\* Start was asked for more verbs than the loaded table holds and answered
\* 400 with the two counts
C16_Witness ==
    /\ Op("start_session")
    /\ Loaded
    /\ last.args[1] > Population
    /\ last.ret.status_code = 400
    /\ last.ret.detail[2] = last.args[1]
    /\ last.ret.detail[4] = Population

\* the calls of Start, Submit and Health that get as far as the form table
NeedsVerbs(call) ==
    \/ call.op = "health_check"
    \/ call.op = "start_session" /\ call.args[1] \in CountMin..CountMax
    \/ call.op = "submit_session" /\ call.args[1].answers # <<>>

\* the status codes of caller faults and of unexpected internal errors
CallerFault == {400, 422}
InternalError == {500}

\* C17: when the form table's source is missing or unparseable, Start, Submit
\* and Health answer with a failure that is neither of the caller-fault class
\* nor of the class of unexpected internal errors.
C17_SourceFailureHasOwnClass ==
    [][(NeedsVerbs(last') /\ self_verbs = None
           /\ file_verbs \in {Absent, Malformed})
       => /\ last'.ret.status_code # 200
          /\ last'.ret.status_code \notin CallerFault
          /\ last'.ret.status_code \notin InternalError]_vars

\* an exception that is neither a validation error nor a data-source error
IsInternal(exc) ==
    /\ exc # NoExc
    /\ exc.type \notin {"ValueError", "JSONDecodeError", "FileNotFoundError"}

\* the detail holds a part of the message
Contains(detail, msg) ==
    \E k \in 1..Len(detail), j \in 1..Len(msg) : detail[k] = msg[j]

\* C18: an unexpected internal error raised while Submit grades is answered
\* as a server-side failure whose detail holds nothing of the exception's
\* message.
C18_InternalErrorNotLeaked ==
    [][Op("submit_session")' =>
         LET g == GradeSession(self_verbs, file_verbs, last'.args[1].answers)
         IN  IsInternal(g.exc)
             => /\ last'.ret.status_code = 500
                /\ ~Contains(last'.ret.detail, g.exc.msg)]_vars

\* C20: check_answer on an infinitive the loaded form table lacks raises a
\* ValueError naming that infinitive and returns no triple, whatever the
\* three forms are.
C20_CheckAnswerNotFound ==
    (Op("check_answer") /\ Loaded /\ last.args[1] \notin DOMAIN self_verbs.rows)
    => /\ last.exc.type = "ValueError"
       /\ last.exc.msg = <<"Verb", last.args[1], "not found in database">>
       /\ last.ret = None

\* check_answer failed for a verb the table lacks, forms having been given
C20_Witness ==
    /\ Op("check_answer")
    /\ Loaded
    /\ last.args[1] \notin DOMAIN self_verbs.rows
    /\ last.args[2] # <<>>
    /\ last.args[4] # <<>>
    /\ last.exc.type = "ValueError"

\* C19: Health answers 'healthy' with the number of verbs exactly when
\* load_verbs succeeds (the table is cached or its source is a table) and
\* answers a failure when it does not; the number reported is always the
\* size of the cached form table.
C19_HealthFollowsLoad ==
    [][Op("health_check")' =>
         LET loads == self_verbs # None \/ file_verbs.kind = "table" IN
         /\ loads <=> last'.ret.status_code = 200
         /\ loads => /\ last'.ret.body.status = "healthy"
                     /\ self_verbs'.kind = "table"
                     /\ last'.ret.body.verbs_loaded =
                            Cardinality(DOMAIN self_verbs'.rows)
         /\ ~loads => /\ last'.ret.status_code = 500
                      /\ last'.ret.body = None
                      /\ self_verbs' = None]_vars

\* Health reported the size of the cached table after its source had changed
C19_Witness ==
    /\ Op("health_check")
    /\ last.ret.status_code = 200
    /\ file_verbs # self_verbs
    /\ last.ret.body.verbs_loaded = Population
    /\ io = {}

\* C21: whatever callers are inside a load operation at once, the cache
\* attribute of each table is assigned at most once.
C21_CacheWrittenAtMostOnce ==
    \A op \in LoadOps : writes[op] <= 1

\* the operations that use the tables without being loads
ReadingOps ==
    {"get_random_verbs", "get_verb_hints", "check_answer", "grade_session",
     "start_session", "submit_session", "health_check"}

\* C22: a call of get_random_verbs, get_verb_hints, check_answer,
\* grade_session, Start, Submit or Health leaves every loaded table exactly
\* as it was, entry for entry, and a table it loads is the source's content
\* whole; it changes no source.
C22_TablesOnlyRead ==
    [][last'.op \in ReadingOps =>
         /\ self_verbs' = IF self_verbs # None THEN self_verbs
                          ELSE IF self_verbs' # None THEN file_verbs ELSE None
         /\ self_translations' =
                IF self_translations # None THEN self_translations
                ELSE IF self_translations' # None THEN file_translations ELSE None
         /\ self_examples' = IF self_examples # None THEN self_examples
                             ELSE IF self_examples' # None THEN file_examples ELSE None
         /\ files' = files]_vars

\* a selection of every verb was drawn from a cached table, which still
\* holds them all
C22_Witness ==
    /\ Op("get_random_verbs")
    /\ Returned
    /\ io = {}
    /\ Loaded
    /\ Len(last.ret) = Population
    /\ Population > 0

\* the form table can be had: it is cached or its source is a table
VerbsAvailable == self_verbs # None \/ file_verbs.kind = "table"

\* C23: a call of one load operation, successful or failed, leaves the other
\* two caches as they were; and while the form table can be had, load_verbs
\* and Health succeed and grade_session fails for no reason of the sources,
\* whatever the state of the translation and example sources.
C23_CachesIndependent ==
    [][/\ Op("load_verbs")'
          => UNCHANGED <<self_translations, self_examples>>
       /\ Op("load_translations")'
          => UNCHANGED <<self_verbs, self_examples>>
       /\ Op("load_examples")'
          => UNCHANGED <<self_verbs, self_translations>>
       /\ (Op("load_verbs")' /\ VerbsAvailable)
          => (Returned' /\ last'.ret = self_verbs')
       /\ (Op("health_check")' /\ VerbsAvailable)
          => last'.ret.status_code = 200
       /\ (Op("grade_session")' /\ VerbsAvailable)
          => last'.exc.type \notin {"FileNotFoundError", "JSONDecodeError"}]_vars

\* the form table was loaded from its source while the translation source
\* was missing and the example source malformed, neither being cached
C23_Witness ==
    /\ Op("load_verbs")
    /\ Returned
    /\ io = {"verbs"}
    /\ file_translations = Absent
    /\ file_examples = Malformed
    /\ self_translations = None
    /\ self_examples = None

\* C24: every grading that grade_session or Submit returns has total_forms
\* of at least 3, so the score was computed by the division and never by the
\* branch for a zero form count; an empty answer list yields no grading.
C24_ScoreNeverOfZeroForms ==
    (Op("grade_session") \/ Op("submit_session")) =>
        /\ GradedAnswers = <<>> => ~Graded
        /\ Graded => /\ Grading.total_forms >= 3
                     /\ Grading.total_forms > 0
                     /\ Grading.total_verbs >= 1

\* a single answer was graded: the least total there is
C24_Witness ==
    /\ Op("grade_session")
    /\ Returned
    /\ Len(last.args[1]) = 1
    /\ last.ret.total_forms = 3

\* C25: a load that fails leaves its cache unpopulated; and a load on an
\* unpopulated cache, however often it has failed before, reads the source
\* as it is now: it fails again while the source is missing or malformed,
\* and once the source is a table it returns that table and caches it.
C25_FailureNotRemembered ==
    [][\A l \in Loaders :
         Op(l.op)' =>
            /\ last'.exc # NoExc => CacheOf(l.op)' = None
            /\ CacheOf(l.op) = None
               => IF SourceOf(l.op).kind = "table"
                  THEN /\ Returned'
                       /\ last'.ret = SourceOf(l.op)
                       /\ CacheOf(l.op)' = SourceOf(l.op)
                       /\ io' = {SourceName(l.op)}
                  ELSE /\ last'.exc # NoExc
                       /\ last'.ret = None]_vars

\* load_verbs, having failed before, read its source and cached the table
C25_Witness ==
    /\ Op("load_verbs")
    /\ "load_verbs" \in failed
    /\ Returned
    /\ io = {"verbs"}
    /\ self_verbs = file_verbs
    /\ self_verbs.kind = "table"

\* the positions of the answers whose infinitive the loaded table lacks
UnknownAt(answers) ==
    {k \in 1..Len(answers) : answers[k].infinitive \notin DOMAIN self_verbs.rows}
FirstOf(positions) == CHOOSE k \in positions : \A j \in positions : k <= j

\* the answers before position k can all be compared: their rows are whole
ComparableBefore(answers, k) ==
    \A j \in 1..(k - 1) : MissingKeys(self_verbs.rows[answers[j].infinitive]) = {}

\* C26: grade_session on a list with infinitives the form table lacks fails
\* naming the first of them in input order, whatever follows it: neither a
\* later unknown infinitive nor a later answer whose comparison would fail
\* shows in the outcome.
C26_FirstUnknownNamed ==
    (Op("grade_session") /\ Loaded /\ UnknownAt(last.args[1]) # {}
        /\ ComparableBefore(last.args[1], FirstOf(UnknownAt(last.args[1]))))
    => /\ last.exc.type = "ValueError"
       /\ last.exc.msg =
             <<"Verb", last.args[1][FirstOf(UnknownAt(last.args[1]))].infinitive,
               "not found in database">>
       /\ last.ret = None

\* an unknown verb came before an answer whose row lacks a form and before
\* another unknown verb, and the failure named the first
C26_Witness ==
    /\ Op("grade_session")
    /\ Loaded
    /\ Len(last.args[1]) = 3
    /\ last.args[1][1].infinitive = "laufen"
    /\ last.args[1][2].infinitive = "machen"
    /\ last.args[1][3].infinitive = "sein"
    /\ last.exc.msg = <<"Verb", "laufen", "not found in database">>

\* the counts and the score of the last score computation
Scored == Op("score_percentage")
total_correct == last.args[1]
total_forms == last.args[2]

\* the counts and the score lie within their ranges
ScoreWithinRange ==
    /\ 0 <= total_correct
    /\ total_correct <= total_forms
    /\ 0 <= last.ret
    /\ last.ret <= 1000

\* C27 as stated: 0 <= correct_count <= total_forms and 0 <= score_percentage
\* <= 100; the score is 100 exactly when every record is all_correct, which
\* is when correct_count = total_forms, and 0 exactly when no form is
\* correct, which is when correct_count = 0.
C27_ScoreExtremesExact ==
    Scored =>
        /\ ScoreWithinRange
        /\ last.ret = 1000 <=> total_correct = total_forms
        /\ last.ret = 0 <=> total_correct = 0

\* C27, amended: 0 <= correct_count <= total_forms and 0 <= score_percentage
\* <= 100; the score is 100 when every form is correct and 0 when none is;
\* the converses hold for fewer than HidingLength answers, from where on the
\* rounding to one decimal gives 100.0 with one form wrong and 0.0 with one
\* form right.
C27_ScoreExtremes ==
    Scored =>
        /\ ScoreWithinRange
        /\ total_correct = total_forms => last.ret = 1000
        /\ total_correct = 0 => last.ret = 0
        /\ total_forms < 3 * HidingLength
           => /\ last.ret = 1000 => total_correct = total_forms
              /\ last.ret = 0 => total_correct = 0
        /\ (total_forms >= 3 * HidingLength
               /\ total_correct \in {1, total_forms - 1})
           => last.ret \in {0, 1000}

\* the longest grading whose score still tells one wrong form from none
C27_Witness ==
    /\ Scored
    /\ total_forms = 3 * (HidingLength - 1)
    /\ total_correct = total_forms - 1
    /\ last.ret = 999

FormNames == {"praesens", "praeteritum", "perfekt"}

\* C28: in every grading each record's user_answers are the three submitted
\* strings as received, whitespace kept; and where a record marks a form
\* correct, the submitted string is the reference form with nothing but
\* whitespace before and after it.
C28_UserAnswersAsReceived ==
    Graded =>
        \A k \in 1..Len(Grading.results) :
           \A f \in FormNames :
              LET record == Grading.results[k] IN
              /\ record.user_answers[f] = GradedAnswers[k][f]
              /\ record.correct[f]
                 => IsTrimOf(record.correct_answers[f], record.user_answers[f])

\* a record marks the present form correct while the submitted string,
\* kept with its leading space, is not the reference form
C28_Witness ==
    /\ Graded
    /\ Grading.results[1].correct.praesens
    /\ Grading.results[1].user_answers.praesens[1] = " "
    /\ Grading.results[1].user_answers.praesens
           # Grading.results[1].correct_answers.praesens
====
